---- MODULE Spec2Model ----
(***************************************************************************)
(* NG12 cancer risk assessor: the assess flow (app/agents/risk_assessor),  *)
(* the chat flow (app/agents/chat_agent), the retriever's list building    *)
(* (app/rag/retriever) and the per-patient session store                   *)
(* (app/memory/session_store).                                             *)
(*                                                                         *)
(* Texts are TLA+ strings handled character by character, so that          *)
(* normalisation, substring tests and JSON extraction are computed the way *)
(* the Python code computes them.  The typographic apostrophe of the two   *)
(* fixed chat sentences is written as an ASCII apostrophe.                 *)
(***************************************************************************)
EXTENDS Integers, Sequences, FiniteSets, TLC

VARIABLES
    env,        \* the process environment: GOOGLE_CLOUD_PROJECT, NG12_CHAT_TOP_CITATIONS
    req,        \* the inputs of the call being served (patient, question, service outcomes)
    res,        \* what that call produced: a returned value or a raised exception
    store,      \* session_store._STORE: patient id -> reference of its list (0: no key)
    heap,       \* the list objects: reference -> sequence of Message
    thr,        \* per request thread: its position in the code it runs and its locals
    calls,      \* ghost: per patient id, the messages of the add_message calls since its last clear
    snap,       \* the last session-store call and the last list get_history returned
    served      \* ghost: the endpoint requests answered so far, each with its response

vars == <<env, req, res, store, heap, thr, calls, snap, served>>

(***************************************************************************)
(* Strings                                                                 *)
(***************************************************************************)
Char(s, i) == SubSeq(s, i, i)

\* Python's str.strip() / regex \s on the characters the model uses
IsSpace(c) == c \in {" ", "\t", "\n", "\r", "\f"}

\* str.lower() on one character
LowerOf ==
    [A |-> "a", B |-> "b", C |-> "c", D |-> "d", E |-> "e", F |-> "f", G |-> "g",
     H |-> "h", I |-> "i", J |-> "j", K |-> "k", L |-> "l", M |-> "m", N |-> "n",
     O |-> "o", P |-> "p", Q |-> "q", R |-> "r", S |-> "s", T |-> "t", U |-> "u",
     V |-> "v", W |-> "w", X |-> "x", Y |-> "y", Z |-> "z"]
LowerChar(c) == IF c \in DOMAIN LowerOf THEN LowerOf[c] ELSE c

\* "".join(parts), by halves (the depth of the evaluation stays logarithmic)
RECURSIVE CatRange(_, _, _)
CatRange(parts, lo, hi) ==
    IF lo > hi THEN ""
    ELSE IF lo = hi THEN parts[lo]
    ELSE CatRange(parts, lo, (lo + hi) \div 2) \o CatRange(parts, (lo + hi) \div 2 + 1, hi)
CatAll(parts) == CatRange(parts, 1, Len(parts))

\* str.lower()
Lower(s) == CatAll([i \in 1..Len(s) |-> LowerChar(Char(s, i))])

\* the first position from i on that holds no whitespace (Len(s) + 1 when none)
RECURSIVE FirstNonSpace(_, _)
FirstNonSpace(s, i) ==
    IF i <= Len(s) /\ IsSpace(Char(s, i)) THEN FirstNonSpace(s, i + 1) ELSE i
\* the last position up to i that holds no whitespace (0 when none)
RECURSIVE LastNonSpace(_, _)
LastNonSpace(s, i) ==
    IF i >= 1 /\ IsSpace(Char(s, i)) THEN LastNonSpace(s, i - 1) ELSE i

\* str.strip()
Strip(s) ==
    LET a == FirstNonSpace(s, 1) IN
    IF a > Len(s) THEN "" ELSE SubSeq(s, a, LastNonSpace(s, Len(s)))

\* re.sub(r"\s+", " ", s): each maximal run of whitespace becomes one space
CollapseSpaces(s) ==
    CatAll([i \in 1..Len(s) |->
              IF ~IsSpace(Char(s, i)) THEN Char(s, i)
              ELSE IF i > 1 /\ IsSpace(Char(s, i - 1)) THEN "" ELSE " "])


\* risk_assessor._norm and chat_agent._norm (the same text in both files)
_norm(s) == CollapseSpaces(Lower(Strip(s)))

\* Python's `sub in s`
Contains(sub, s) ==
    \E i \in 1..(Len(s) - Len(sub) + 1) : SubSeq(s, i, i + Len(sub) - 1) = sub

\* Python's sep.join(parts)
RECURSIVE Join(_, _)
Join(sep, parts) ==
    IF parts = <<>> THEN ""
    ELSE IF Len(parts) = 1 THEN parts[1]
    ELSE parts[1] \o sep \o Join(sep, Tail(parts))

\* patient.get(key, default)
PGet(patient, key, default) == IF key \in DOMAIN patient THEN patient[key] ELSE default

(***************************************************************************)
(* json.loads, on the JSON grammar without floats and \u escapes.  A value *)
(* is [t, s, kids]: t in str/num/null/true/false/arr/obj; s the text of a  *)
(* string or the decimal text of an integer; kids the elements of an array *)
(* or the <<key, value>> members of an object in source order.             *)
(***************************************************************************)
JVal(t, s, kids) == [t |-> t, s |-> s, kids |-> kids]
JEmptyDict == JVal("obj", "", <<>>)
JFail == [ok |-> FALSE, val |-> JVal("null", "", <<>>), pos |-> 0]
JOk(v, p) == [ok |-> TRUE, val |-> v, pos |-> p]

IsJsonWs(c) == c \in {" ", "\t", "\n", "\r"}
IsDigit(c) == c \in {"0", "1", "2", "3", "4", "5", "6", "7", "8", "9"}
At(s, i) == IF i >= 1 /\ i <= Len(s) THEN Char(s, i) ELSE ""
StartsAt(lit, s, i) == i + Len(lit) - 1 <= Len(s) /\ SubSeq(s, i, i + Len(lit) - 1) = lit

RECURSIVE SkipWs(_, _)
SkipWs(s, i) == IF IsJsonWs(At(s, i)) THEN SkipWs(s, i + 1) ELSE i

\* json.decoder.scanstring (strict), from the character after the opening quote.
\* A backslash introduces an escape when an even number of backslashes precede it
\* in its run; the string ends at the first quote no escape covers.
Unescape(e) ==
    CASE e = "n" -> "\n" [] e = "t" -> "\t" [] e = "r" -> "\r" [] e = "f" -> "\f"
      [] OTHER -> e

RECURSIVE BackslashesBefore(_, _)
BackslashesBefore(s, j) ==
    IF j > 1 /\ Char(s, j - 1) = "\\" THEN 1 + BackslashesBefore(s, j - 1) ELSE 0

ScanString(s, start) ==
    LET Escaped(j) == j > start /\ BackslashesBefore(SubSeq(s, start, j), j - start + 1) % 2 = 1
        ends == {j \in start..Len(s) : Char(s, j) = "\"" /\ ~Escaped(j)}
        end == CHOOSE j \in ends : \A m \in ends : j <= m
        Intro(j) == Char(s, j) = "\\" /\ ~Escaped(j)
        bad == \E j \in start..(end - 1) :
                  \/ Char(s, j) \in {"\n", "\t", "\r", "\f"}
                  \/ /\ j > start
                     /\ Char(s, j - 1) = "\\"
                     /\ Escaped(j)
                     /\ Char(s, j) \notin {"\"", "\\", "/", "n", "t", "r", "f"}
        text == CatAll([n \in 1..(end - start) |->
                   LET j == start + n - 1 IN
                   IF Char(s, j) = "\\" /\ ~Escaped(j) THEN ""
                   ELSE IF j > start /\ Char(s, j - 1) = "\\" /\ Escaped(j) THEN Unescape(Char(s, j))
                   ELSE Char(s, j)])
    IN  IF ends = {} THEN JFail
        ELSE IF bad THEN JFail
        ELSE JOk(JVal("str", text, <<>>), end + 1)

RECURSIVE DigitsEnd(_, _)
DigitsEnd(s, i) == IF IsDigit(At(s, i)) THEN DigitsEnd(s, i + 1) ELSE i

\* json.scanner NUMBER_RE, integer part: -?(0|[1-9]\d*); int() of "-0" is 0
ScanNumber(s, i) ==
    LET d == IF At(s, i) = "-" THEN i + 1 ELSE i
        e == IF At(s, d) = "0" THEN d + 1 ELSE DigitsEnd(s, d)
        txt == SubSeq(s, i, e - 1)
    IN  IF ~IsDigit(At(s, d)) THEN JFail
        ELSE JOk(JVal("num", IF txt = "-0" THEN "0" ELSE txt, <<>>), e)

RECURSIVE ParseValue(_, _)
RECURSIVE ParseElems(_, _, _)
RECURSIVE ParseMembers(_, _, _)

\* JSONArray after "[" and at least one element expected at j
ParseElems(s, j, acc) ==
    LET v == ParseValue(s, j) IN
    IF ~v.ok THEN JFail
    ELSE LET k == SkipWs(s, v.pos) IN
         IF At(s, k) = "]" THEN JOk(JVal("arr", "", Append(acc, v.val)), k + 1)
         ELSE IF At(s, k) = "," THEN ParseElems(s, SkipWs(s, k + 1), Append(acc, v.val))
         ELSE JFail

\* JSONObject after "{" and at least one member expected at j
ParseMembers(s, j, acc) ==
    IF At(s, j) # "\"" THEN JFail
    ELSE LET key == ScanString(s, j + 1) IN
         IF ~key.ok THEN JFail
         ELSE LET k == SkipWs(s, key.pos) IN
              IF At(s, k) # ":" THEN JFail
              ELSE LET v == ParseValue(s, SkipWs(s, k + 1)) IN
                   IF ~v.ok THEN JFail
                   ELSE LET m == SkipWs(s, v.pos)
                            acc2 == Append(acc, <<key.val.s, v.val>>)
                        IN  IF At(s, m) = "}" THEN JOk(JVal("obj", "", acc2), m + 1)
                            ELSE IF At(s, m) = "," THEN ParseMembers(s, SkipWs(s, m + 1), acc2)
                            ELSE JFail

\* json.scanner: one value starting at i
ParseValue(s, i) ==
    LET c == At(s, i) IN
    IF c = "\"" THEN ScanString(s, i + 1)
    ELSE IF c = "{" THEN
        (IF At(s, SkipWs(s, i + 1)) = "}" THEN JOk(JEmptyDict, SkipWs(s, i + 1) + 1)
         ELSE ParseMembers(s, SkipWs(s, i + 1), <<>>))
    ELSE IF c = "[" THEN
        (IF At(s, SkipWs(s, i + 1)) = "]" THEN JOk(JVal("arr", "", <<>>), SkipWs(s, i + 1) + 1)
         ELSE ParseElems(s, SkipWs(s, i + 1), <<>>))
    ELSE IF StartsAt("null", s, i) THEN JOk(JVal("null", "", <<>>), i + 4)
    ELSE IF StartsAt("true", s, i) THEN JOk(JVal("true", "", <<>>), i + 4)
    ELSE IF StartsAt("false", s, i) THEN JOk(JVal("false", "", <<>>), i + 5)
    ELSE ScanNumber(s, i)

\* json.loads(s): one value, then only whitespace (else "Extra data")
WholeText(s, v) == IF v.ok /\ SkipWs(s, v.pos) = Len(s) + 1 THEN v ELSE JFail
json_loads(s) == WholeText(s, ParseValue(s, SkipWs(s, 1)))

\* re.search(r"\{.*\}", text, flags=re.DOTALL): from the first "{" to the last "}"
BraceSpan(text) ==
    LET opens == {i \in 1..Len(text) : Char(text, i) = "{"}
        closes == {i \in 1..Len(text) : Char(text, i) = "}"}
        a == CHOOSE i \in opens : \A j \in opens : i <= j
        b == CHOOSE i \in closes : \A j \in closes : j <= i
    IN  IF opens = {} \/ closes = {} THEN [found |-> FALSE, text |-> ""]
        ELSE IF b < a THEN [found |-> FALSE, text |-> ""]
        ELSE [found |-> TRUE, text |-> SubSeq(text, a, b)]


\* risk_assessor._extract_json and chat_agent._extract_json (the same text in both)
\* `try: return json.loads(...)  except Exception: pass`, then `return {}`
LoadedOrEmpty(r) == IF r.ok THEN r.val ELSE JEmptyDict
\* the direct parse (line 92), else the parse of the brace span (lines 96-99), else {}
FirstLoaded(direct, m) ==
    IF direct.ok THEN direct.val
    ELSE IF m.found THEN LoadedOrEmpty(json_loads(m.text))
    ELSE JEmptyDict
ExtractStripped(text) == FirstLoaded(json_loads(text), BraceSpan(text))
_extract_json(text0) == ExtractStripped(Strip(text0))

\* dict(...) semantics of a parsed object: a repeated key keeps its last value
DictHas(obj, key) == \E i \in 1..Len(obj.kids) : obj.kids[i][1] = key
DictVal(obj, key) ==
    LET hits == {i \in 1..Len(obj.kids) : obj.kids[i][1] = key}
    IN  obj.kids[CHOOSE i \in hits : \A j \in hits : j <= i][2]
\* the members as Python keeps them: first position of each key, last value
DictItems(obj) ==
    LET firsts == SelectSeq([i \in 1..Len(obj.kids) |-> i],
                            LAMBDA i : \A j \in 1..(i - 1) : obj.kids[j][1] # obj.kids[i][1])
    IN  [n \in 1..Len(firsts) |-> <<obj.kids[firsts[n]][1], DictVal(obj, obj.kids[firsts[n]][1])>>]

\* bool(v)
Truthy(v) ==
    CASE v.t = "str" -> v.s # ""
      [] v.t = "num" -> v.s # "0"
      [] v.t = "true" -> TRUE
      [] v.t \in {"null", "false"} -> FALSE
      [] OTHER -> v.kids # <<>>

\* repr() of a str without control characters
StrRepr(s) ==
    IF Contains("'", s) /\ ~Contains("\"", s) THEN "\"" \o s \o "\"" ELSE "'" \o s \o "'"

RECURSIVE PyRepr(_)
PyRepr(v) ==
    CASE v.t = "str" -> StrRepr(v.s)
      [] v.t = "num" -> v.s
      [] v.t = "null" -> "None"
      [] v.t = "true" -> "True"
      [] v.t = "false" -> "False"
      [] v.t = "arr" -> "[" \o Join(", ", [i \in 1..Len(v.kids) |-> PyRepr(v.kids[i])]) \o "]"
      [] OTHER ->
           LET items == DictItems(v) IN
           "{" \o Join(", ", [i \in 1..Len(items) |->
                    StrRepr(items[i][1]) \o ": " \o PyRepr(items[i][2])]) \o "}"

\* str(v)
PyStr(v) == IF v.t = "str" THEN v.s ELSE PyRepr(v)

\* str(obj.get(key, ""))
GetStr(obj, key) == IF DictHas(obj, key) THEN PyStr(DictVal(obj, key)) ELSE ""
\* str(obj.get(key) or "").strip()
GetOrEmptyStripped(obj, key) ==
    IF DictHas(obj, key) /\ Truthy(DictVal(obj, key))
    THEN Strip(PyStr(DictVal(obj, key))) ELSE ""

(***************************************************************************)
(* Data: the records of data/patients.json, the chunks of the index's      *)
(* meta.json, the questions, and the texts the generation service returns. *)
(***************************************************************************)
Patients == {
    [patient_id |-> "PT-101", age |-> 55, sex |-> "M",
     symptoms |-> <<"Unexplained Weight Loss", "Change in bowel habit">>,
     findings |-> <<>>, investigations |-> <<>>],
    [patient_id |-> "PT-102", age |-> 40, sex |-> "F",
     symptoms |-> <<"Night  sweats", "FEVER">>,
     findings |-> <<"abdominal pain">>, investigations |-> <<>>],
    [patient_id |-> "PT-103", age |-> 67, sex |-> "M",
     symptoms |-> <<"Fatigue">>,
     findings |-> <<"Splenomegaly">>, investigations |-> <<"Full blood count">>],
    [patient_id |-> "PT-104", age |-> 30, sex |-> "F"] }

Meta == <<
    [source |-> "NG12 PDF", page |-> 10, chunk_id |-> "c0",
     text |-> "Refer using a suspected cancer pathway referral for unexplained weight loss."],
    [source |-> "NG12 PDF", page |-> 11, chunk_id |-> "c1",
     text |-> "Offer URGENT  investigation for abdominal pain with weight loss."],
    [source |-> "NG12 PDF", page |-> 12, chunk_id |-> "c2",
     text |-> "Night\nsweats or Fever: consider urgent referral."],
    [source |-> "NG12 PDF", page |-> 13, chunk_id |-> "c3",
     text |-> "Splenomegaly: offer urgent investigation, or urgent referral."],
    [source |-> "NG12 PDF", page |-> 14, chunk_id |-> "c4",
     text |-> "Consider a direct access CT scan for change in bowel habit."] >>

Messages == {"Is weight loss a reason to refer?", "hello"}

\* Patients and chunks for the ranking on its own (specification SpecRank): the
\* symptom combination of _score_citation, with and without abdominal pain, and
\* chunks with a referral-pathway phrase, with a direct access CT scan, and with
\* equal scores.
RankPatients == {
    [patient_id |-> "PT-201", age |-> 62, sex |-> "M",
     symptoms |-> <<"Weight loss", "Change in bowel habit">>,
     findings |-> <<>>, investigations |-> <<>>],
    [patient_id |-> "PT-202", age |-> 58, sex |-> "F",
     symptoms |-> <<"weight loss", "change in bowel habit", "Abdominal pain">>,
     findings |-> <<>>, investigations |-> <<>>],
    [patient_id |-> "PT-203", age |-> 45, sex |-> "F",
     symptoms |-> <<"Cough">>, findings |-> <<>>, investigations |-> <<>>] }

RankMeta == <<
    [source |-> "NG12 PDF", page |-> 20, chunk_id |-> "r0",
     text |-> "Refer using a suspected cancer pathway referral."],
    [source |-> "NG12 PDF", page |-> 21, chunk_id |-> "r1",
     text |-> "Offer urgent investigation: direct access CT scan for weight loss, abdominal pain or change in bowel habit."],
    [source |-> "NG12 PDF", page |-> 22, chunk_id |-> "r2",
     text |-> "Consider a direct access CT scan for weight loss with abdominal pain."],
    [source |-> "NG12 PDF", page |-> 23, chunk_id |-> "r3",
     text |-> "Safety netting: review the person within two weeks."],
    [source |-> "NG12 PDF", page |-> 24, chunk_id |-> "r4",
     text |-> "Give the person information about their referral."],
    [source |-> "NG12 PDF", page |-> 25, chunk_id |-> "r5",
     text |-> "Fever: consider an urgent referral."] >>

\* (a markdown fence is written with tildes: a TLA+ string cannot hold a backquote)
ModelTexts == {
    "{\"category\": \"urgent_referral\", \"rationale\": \"Excerpt says refer.\", \"recommended_action\": \"Refer.\", \"answer\": \"Refer on the pathway.\"}",
    "~~~json\n{\"category\": \"Urgent  Referral\", \"answer\": \" ok \"}\n~~~",
    "Sure: {\"category\": \"banana\", \"recommended_action\": \"Wait\", \"answer\": \"x\"} done",
    "",
    "not json",
    "[1, 2]",
    "null",
    "{}",
    "{\"rationale\": \"r\", \"answer\": \"\"}",
    "{\"a\": 1} and {\"b\": 2}",
    "\"insufficient evidence\"",
    "{\"category\": \"ROUTINE\", \"recommended_action\": 0, \"answer\": null}" }

\* an exception: its type name and str()
Exc(type, msg) == [type |-> type, msg |-> msg]
NoExc == Exc("", "")

\* what constructing the retriever and calling retrieve can raise
RetrievalErrors == {Exc("FileNotFoundError", "FAISS index not found. Run ingestion first."),
                    Exc("RuntimeError", "VERTEX_PROJECT_ID not set")}
\* what generate_content, or reading resp.text, can raise
GenerationErrors == {Exc("ServiceUnavailable", "503 generation service unavailable")}

\* the length of the id row retrieve reads from the index search
MaxIds == 2
\* os.getenv("NG12_CHAT_TOP_CITATIONS", "3")
TopCitationsDefault == 3
TopCitationsValues == {0, TopCitationsDefault}
\* retriever.retrieve: str(m.get("text", ""))[:500]
ExcerptCap == 500

RECURSIVE SeqsUpTo(_, _)
SeqsUpTo(S, n) ==
    IF n = 0 THEN {<<>>}
    ELSE LET shorter == SeqsUpTo(S, n - 1)
         IN  shorter \cup {Append(q, x) : q \in {r \in shorter : Len(r) = n - 1}, x \in S}

\* rows of ids from index.search: positions of Meta from 0, -1 for "no match"
IdRows == SeqsUpTo(-1..(Len(Meta) - 1), MaxIds)

RetrievalOutcomes ==
    {[err |-> FALSE, exc |-> NoExc, ids |-> r] : r \in IdRows}
    \cup {[err |-> TRUE, exc |-> e, ids |-> <<>>] : e \in RetrievalErrors}

\* resp.text is a text, or None / missing ("none"), or the call raises
GenerationOutcomes ==
    {[kind |-> "text", text |-> t, exc |-> NoExc] : t \in ModelTexts}
    \cup {[kind |-> "none", text |-> "", exc |-> NoExc]}
    \cup {[kind |-> "raise", text |-> "", exc |-> e] : e \in GenerationErrors}

(***************************************************************************)
(* The pure functions of the flows are evaluated once per text of the data *)
(* and looked up afterwards: NormOf[s] is _norm(s), ExtractOf[t] is        *)
(* _extract_json(t).  A text outside the data is normalized directly.     *)
(***************************************************************************)
PatientTexts(p) ==
    LET xs == PGet(p, "symptoms", <<>>) \o PGet(p, "findings", <<>>) \o PGet(p, "investigations", <<>>)
    IN  {xs[i] : i \in 1..Len(xs)}
KnownTexts ==
    {Meta[i].text : i \in 1..Len(Meta)} \cup {RankMeta[i].text : i \in 1..Len(RankMeta)}
    \cup Messages \cup UNION {PatientTexts(p) : p \in Patients \cup RankPatients}
NormOf == [s \in KnownTexts |-> _norm(s)]
Norm(s) == IF s \in DOMAIN NormOf THEN NormOf[s] ELSE _norm(s)

\* [_norm(x) for x in xs]
NormAll(xs) == [i \in 1..Len(xs) |-> Norm(xs[i])]

ExtractOf == [t \in {g.text : g \in GenerationOutcomes} |-> _extract_json(t)]
Extract(t) == ExtractOf[t]

(***************************************************************************)
(* app/rag/retriever.py                                                    *)
(***************************************************************************)
\* Citation(source=..., page=..., chunk_id=..., excerpt=str(text)[:500])
Citation(m) ==
    [source |-> m.source, page |-> m.page, chunk_id |-> m.chunk_id,
     excerpt |-> SubSeq(m.text, 1, IF Len(m.text) < ExcerptCap THEN Len(m.text) ELSE ExcerptCap)]

\* NG12Retriever.retrieve, from the row of ids on: negative ids are skipped
RECURSIVE retrieve(_)
retrieve(ids) ==
    IF ids = <<>> THEN <<>>
    ELSE IF Head(ids) < 0 THEN retrieve(Tail(ids))
    ELSE <<Citation(Meta[Head(ids) + 1])>> \o retrieve(Tail(ids))

(***************************************************************************)
(* The Evidence Gate: chat_agent._citation_supported_by_patient            *)
(***************************************************************************)
gated_terms == <<"splenomegaly", "lymphadenopathy", "night sweats", "fever", "pruritus">>

\* " ".join(_norm(x) for x in symptoms + findings + investigations)
patient_terms(patient) ==
    Join(" ", NormAll(PGet(patient, "symptoms", <<>>) \o PGet(patient, "findings", <<>>)
                      \o PGet(patient, "investigations", <<>>)))


_citation_supported_by_patient(c, patient) ==
    LET text == Norm(c.excerpt)
        terms == patient_terms(patient)
    IN  \A k \in 1..Len(gated_terms) :
            ~(Contains(gated_terms[k], text) /\ ~Contains(gated_terms[k], terms))

(***************************************************************************)
(* Ranking                                                                 *)
(***************************************************************************)
Min(a, b) == IF a < b THEN a ELSE b
Max(a, b) == IF a < b THEN b ELSE a

\* risk_assessor._score_citation
_score_citation(c, patient) ==
    LET text == Norm(c.excerpt)
        symptoms == NormAll(PGet(patient, "symptoms", <<>>))
        anySym(P(_)) == \E i \in 1..Len(symptoms) : P(symptoms[i])
        has_weight_loss == anySym(LAMBDA x : Contains("weight loss", x))
        has_bowel_change == anySym(LAMBDA x : Contains("change in bowel", x) \/ Contains("bowel habit", x))
        has_abdominal_pain == anySym(LAMBDA x : Contains("abdominal pain", x))
                              \/ anySym(LAMBDA x : Contains("upper abdominal pain", x))
        urgent == Contains("suspected cancer pathway", text) \/ Contains("urgent investigation", text)
                  \/ Contains("urgent referral", text)
        ct == Contains("ct scan", text) \/ Contains("direct access ct", text)
        kws == <<"weight loss", "change in bowel habit", "bowel habit", "abdominal pain",
                 "upper abdominal pain", "ct scan">>
    IN  (IF urgent THEN 60 ELSE 0)
        + (IF has_weight_loss /\ has_bowel_change /\ urgent THEN 80 ELSE 0)
        - (IF has_weight_loss /\ has_bowel_change /\ ct THEN 20 ELSE 0)
        + (IF has_weight_loss /\ has_abdominal_pain /\ ct THEN 15 ELSE 0)
        + 3 * Cardinality({k \in 1..Len(kws) : Contains(kws[k], text)})
        + Min(Len(text) \div 200, 5)

\* chat_agent._score_citation
chat_score_citation(c, patient, message) ==
    LET text == Norm(c.excerpt)
        msg == Norm(message)
        patient_text == Join(" ", NormAll(PGet(patient, "symptoms", <<>>))
                                  \o NormAll(PGet(patient, "findings", <<>>)))
        kws == <<"weight loss", "change in bowel", "bowel habit", "abdominal pain",
                 "upper abdominal pain">>
    IN  (IF Contains("refer using a suspected cancer pathway referral", text) THEN 120 ELSE 0)
        + (IF Contains("suspected cancer pathway referral", text) THEN 90 ELSE 0)
        + (IF Contains("offer urgent investigation", text) THEN 80 ELSE 0)
        + (IF Contains("urgent referral", text) THEN 60 ELSE 0)
        + 10 * Cardinality({k \in 1..Len(kws) :
                 Contains(kws[k], text) /\ (Contains(kws[k], patient_text) \/ Contains(kws[k], msg))})
        - (IF Contains("recommendations organised by symptom", text) THEN 40 ELSE 0)
        + Min(Len(text) \div 250, 6)

\* the scores and the gate's verdicts, evaluated once per excerpt of the index
Citations ==
    {Citation(Meta[i]) : i \in 1..Len(Meta)} \cup {Citation(RankMeta[i]) : i \in 1..Len(RankMeta)}
AllPatients == Patients \cup RankPatients
AssessScoreOf == [c \in Citations, p \in AllPatients |-> _score_citation(c, p)]
ChatScoreOf == [c \in Citations, p \in AllPatients, m \in Messages |-> chat_score_citation(c, p, m)]
SupportedOf == [c \in Citations, p \in AllPatients |-> _citation_supported_by_patient(c, p)]

\* a mutant of the sort: descending, but an item goes before the earlier items of
\* equal key
RECURSIVE sorted_desc_ties_reversed(_)
sorted_desc_ties_reversed(pairs) ==
    IF pairs = <<>> THEN <<>>
    ELSE LET n == Len(pairs)
             last == pairs[n]
             front == sorted_desc_ties_reversed(SubSeq(pairs, 1, n - 1))
             before == SelectSeq(front, LAMBDA q : q[1] > last[1])
             after == SelectSeq(front, LAMBDA q : q[1] <= last[1])
         IN  before \o <<last>> \o after

\* sorted(xs, key=..., reverse=True) on <<key, item>> pairs: descending and stable
RECURSIVE SortedDesc(_)
SortedDesc(pairs) ==
    IF pairs = <<>> THEN <<>>
    ELSE LET n == Len(pairs)
             last == pairs[n]
             front == SortedDesc(SubSeq(pairs, 1, n - 1))
             \* the last item goes after every earlier item whose key is >= its key
             before == SelectSeq(front, LAMBDA q : q[1] >= last[1])
             after == SelectSeq(front, LAMBDA q : q[1] < last[1])
         IN  before \o <<last>> \o after

\* risk_assessor._rank_citations
_rank_citations(citations, patient) ==
    LET sorted == SortedDesc([i \in 1..Len(citations) |->
                                <<AssessScoreOf[citations[i], patient], citations[i]>>])
    IN  [i \in 1..Len(sorted) |-> sorted[i][2]]

\* chat_agent._rank_citations
chat_rank_citations(citations, patient, message) ==
    LET sorted == SortedDesc([i \in 1..Len(citations) |->
                                <<ChatScoreOf[citations[i], patient, message], citations[i]>>])
    IN  [i \in 1..Len(sorted) |-> sorted[i][2]]

(***************************************************************************)
(* Results of a call: an AssessResponse ("response"), the pair returned by *)
(* answer_question ("answer"), or an exception leaving the call ("raised").*)
(* evidence is the excerpts placed in the prompt (empty when none was      *)
(* built); gen_called tells whether generate_content was invoked.          *)
(***************************************************************************)
AssessResponse(patient_id, category, rationale, recommended_action, citations, evidence, gen_called) ==
    [kind |-> "response", patient_id |-> patient_id, category |-> category,
     rationale |-> rationale, recommended_action |-> recommended_action, answer |-> "",
     citations |-> citations, evidence |-> evidence, exc |-> NoExc, gen_called |-> gen_called]

ChatAnswer(answer, citations, evidence, gen_called) ==
    [kind |-> "answer", patient_id |-> "", category |-> "", rationale |-> "",
     recommended_action |-> "", answer |-> answer,
     citations |-> citations, evidence |-> evidence, exc |-> NoExc, gen_called |-> gen_called]

Raised(exc, evidence, gen_called) ==
    [kind |-> "raised", patient_id |-> "", category |-> "", rationale |-> "",
     recommended_action |-> "", answer |-> "",
     citations |-> <<>>, evidence |-> evidence, exc |-> exc, gen_called |-> gen_called]

NoResult ==
    [kind |-> "none", patient_id |-> "", category |-> "", rationale |-> "",
     recommended_action |-> "", answer |-> "",
     citations |-> <<>>, evidence |-> <<>>, exc |-> NoExc, gen_called |-> FALSE]

\* type(v).__name__
PyTypeName(v) ==
    CASE v.t = "str" -> "str" [] v.t = "num" -> "int" [] v.t = "null" -> "NoneType"
      [] v.t \in {"true", "false"} -> "bool" [] v.t = "arr" -> "list" [] OTHER -> "dict"

\* obj.get on a value that is no dict
NoGet(v) == Exc("AttributeError", "'" \o PyTypeName(v) \o "' object has no attribute 'get'")

\* GOOGLE_CLOUD_PROJECT: unset / empty, or a project id
Projects == {"", "my-project"}

\* _init_vertex(); model.generate_content(...); getattr(resp, "text", "") or ""
\* with init_error the RuntimeError _init_vertex raises when the project is not set
Generate(project, gen, init_error) ==
    IF project = "" THEN [raised |-> TRUE, exc |-> init_error, called |-> FALSE, text |-> ""]
    ELSE IF gen.kind = "raise" THEN [raised |-> TRUE, exc |-> gen.exc, called |-> TRUE, text |-> ""]
    ELSE [raised |-> FALSE, exc |-> NoExc, called |-> TRUE, text |-> gen.text]

(***************************************************************************)
(* app/agents/risk_assessor.py                                             *)
(***************************************************************************)
CanonicalCategories ==
    {"urgent_referral", "urgent_investigation", "no_urgent_action", "insufficient_evidence"}

\* a mutant of _map_category: an unrecognized label is passed through
map_category_passthrough(cat) ==
    LET c == _norm(cat) IN
    IF c \in {"urgent_referral", "urgent referral"} THEN "urgent_referral"
    ELSE IF c \in {"urgent_investigation", "urgent investigation"} THEN "urgent_investigation"
    ELSE IF c \in {"no_urgent_action", "no urgent action", "routine"} THEN "no_urgent_action"
    ELSE IF c \in {"insufficient_evidence", "insufficient evidence", "uncertain"} THEN "insufficient_evidence"
    ELSE c

_map_category(cat) ==
    LET c == _norm(cat) IN
    IF c \in {"urgent_referral", "urgent referral"} THEN "urgent_referral"
    ELSE IF c \in {"urgent_investigation", "urgent investigation"} THEN "urgent_investigation"
    ELSE IF c \in {"no_urgent_action", "no urgent action", "routine"} THEN "no_urgent_action"
    ELSE IF c \in {"insufficient_evidence", "insufficient evidence", "uncertain"} THEN "insufficient_evidence"
    ELSE "urgent_investigation"

AssessInitError ==
    Exc("RuntimeError",
        "GOOGLE_CLOUD_PROJECT is not set. Example:\n  $env:GOOGLE_CLOUD_PROJECT=\"your-project-id\"\n  $env:GOOGLE_CLOUD_LOCATION=\"us-central1\"")

HasReferralPhrase(excerpt_norm) ==
    Contains("suspected cancer pathway", excerpt_norm) \/ Contains("urgent referral", excerpt_norm)
HasInvestigationPhrase(excerpt_norm) == Contains("urgent investigation", excerpt_norm)

\* a mutant of the except branch: the investigation phrase is tested first
generation_fallback_investigation_first(pid, best, e, called) ==
    LET excerpt_norm == Norm(best.excerpt) IN
    IF HasInvestigationPhrase(excerpt_norm) THEN
        AssessResponse(pid, "urgent_investigation", "NG12 excerpt indicates urgent investigation.",
                       "Offer urgent investigation.", <<best>>, <<best>>, called)
    ELSE IF HasReferralPhrase(excerpt_norm) THEN
        AssessResponse(pid, "urgent_referral",
                       "NG12 excerpt indicates a suspected cancer pathway referral.",
                       "Refer using a suspected cancer pathway referral.", <<best>>, <<best>>, called)
    ELSE
        AssessResponse(pid, "insufficient_evidence",
                       "Model failed: " \o e.type \o ": " \o e.msg \o ". Returning best available citation.",
                       "Follow NG12 guidance as per the cited excerpt.", <<best>>, <<best>>, called)

\* assess_patient, the except branch of the generation try (lines 182-207)
generation_fallback(pid, best, e, called) ==
    LET excerpt_norm == Norm(best.excerpt) IN
    IF HasReferralPhrase(excerpt_norm) THEN
        AssessResponse(pid, "urgent_referral",
                       "NG12 excerpt indicates a suspected cancer pathway referral.",
                       "Refer using a suspected cancer pathway referral.", <<best>>, <<best>>, called)
    ELSE IF HasInvestigationPhrase(excerpt_norm) THEN
        AssessResponse(pid, "urgent_investigation", "NG12 excerpt indicates urgent investigation.",
                       "Offer urgent investigation.", <<best>>, <<best>>, called)
    ELSE
        AssessResponse(pid, "insufficient_evidence",
                       "Model failed: " \o e.type \o ": " \o e.msg \o ". Returning best available citation.",
                       "Follow NG12 guidance as per the cited excerpt.", <<best>>, <<best>>, called)

\* assess_patient after the generation try (lines 209-232)
assemble_response(pid, best, obj) ==
    IF obj.t # "obj" THEN Raised(NoGet(obj), <<best>>, TRUE)
    ELSE
    LET category == _map_category(GetStr(obj, "category"))
        rationale0 == GetOrEmptyStripped(obj, "rationale")
        action0 == GetOrEmptyStripped(obj, "recommended_action")
        rationale == IF rationale0 = ""
                     THEN "Recommendation is grounded in the retrieved NG12 excerpt." ELSE rationale0
        excerpt_norm == Norm(best.excerpt)
    IN  IF action0 # "" THEN AssessResponse(pid, category, rationale, action0, <<best>>, <<best>>, TRUE)
        ELSE IF HasReferralPhrase(excerpt_norm) THEN
            AssessResponse(pid, "urgent_referral", rationale,
                           "Refer using a suspected cancer pathway referral.", <<best>>, <<best>>, TRUE)
        ELSE IF HasInvestigationPhrase(excerpt_norm) THEN
            AssessResponse(pid, "urgent_investigation", rationale,
                           "Offer urgent investigation.", <<best>>, <<best>>, TRUE)
        ELSE AssessResponse(pid, category, rationale,
                            "Follow NG12 guidance as per the cited excerpt.", <<best>>, <<best>>, TRUE)

\* a mutant of the retrieval guard: a retrieval error is not caught
retrieval_guard_propagates(pid, retrieval) ==
    IF retrieval.err THEN Raised(retrieval.exc, <<>>, FALSE)
    ELSE AssessResponse(pid, "insufficient_evidence",
             "No relevant NG12 guidance could be retrieved for the given symptoms.",
             "Review NG12 guidance manually and consider clinical review.", <<>>, <<>>, FALSE)

\* assess_patient, the two early returns (lines 124-144): retrieval raised, or nothing retrieved
retrieval_guard(pid, retrieval) ==
    IF retrieval.err THEN
        AssessResponse(pid, "insufficient_evidence",
            "Retrieval failed: " \o retrieval.exc.type \o ": " \o retrieval.exc.msg,
            "Retry retrieval or review NG12 guidance manually.", <<>>, <<>>, FALSE)
    ELSE AssessResponse(pid, "insufficient_evidence",
             "No relevant NG12 guidance could be retrieved for the given symptoms.",
             "Review NG12 guidance manually and consider clinical review.", <<>>, <<>>, FALSE)

\* assess_patient, the generation try and what follows it (lines 177-232)
assess_generate(pid, best, g) ==
    IF g.raised THEN generation_fallback(pid, best, g.exc, g.called)
    ELSE assemble_response(pid, best, Extract(g.text))

\* assess_patient from the retrieved citations on (lines 137-232)
assess_citations(pid, patient, project, retrieval, generation, citations) ==
    IF retrieval.err \/ citations = <<>> THEN retrieval_guard(pid, retrieval)
    ELSE assess_generate(pid, _rank_citations(citations, patient)[1],
                         Generate(project, generation, AssessInitError))

assess_patient(patient, project, retrieval, generation) ==
    assess_citations(PGet(patient, "patient_id", ""), patient, project, retrieval, generation,
                     retrieve(retrieval.ids))

(***************************************************************************)
(* app/agents/chat_agent.py                                                *)
(***************************************************************************)
\* the two fixed sentences of answer_question (lines 213 and 273); the source
\* writes their apostrophe as U+2019, written here as an ASCII apostrophe
NoExcerptSentence == "I couldn't retrieve a relevant NG12 excerpt for that question."
RefusalSentence == "I can't find that in the provided NG12 excerpts."

ChatInitError ==
    Exc("RuntimeError",
        "GOOGLE_CLOUD_PROJECT is not set.\nExample:\n  $env:GOOGLE_CLOUD_PROJECT=\"your-project-id\"\n  $env:GOOGLE_CLOUD_LOCATION=\"us-central1\"")

\* a mutant of the chat filter: every ranked citation is kept
gate_filter_keeps_all(ranked, patient) == ranked

\* [c for c in ranked if _citation_supported_by_patient(c, patient)]
gate_filter(ranked, patient) ==
    SelectSeq(ranked, LAMBDA c : SupportedOf[c, patient])

\* a mutant of the chat early return: generation is attempted with no citation
chat_no_citation_guard_off(citations) == FALSE

\* `if not citations:` (line 211)
chat_no_citation_guard(citations) == citations = <<>>

\* `if not answer:` (lines 272-273)
answer_or_refusal(answer) == IF answer = "" THEN RefusalSentence ELSE answer

\* answer_question from the extracted object on (lines 270-275)
chat_reply(obj, citations) ==
    IF obj.t # "obj" THEN Raised(NoGet(obj), citations, TRUE)
    ELSE ChatAnswer(answer_or_refusal(GetOrEmptyStripped(obj, "answer")), citations, citations, TRUE)

\* answer_question from _init_vertex() on (lines 232-275): no try surrounds the calls
chat_generate(g, citations) ==
    IF g.raised THEN Raised(g.exc, IF g.called THEN citations ELSE <<>>, g.called)
    ELSE chat_reply(Extract(g.text), citations)

\* answer_question from the gated citations on (lines 211-275)
chat_answer(citations, project, generation) ==
    IF chat_no_citation_guard(citations) THEN ChatAnswer(NoExcerptSentence, <<>>, <<>>, FALSE)
    ELSE chat_generate(Generate(project, generation, ChatInitError), citations)

\* filtered[: max(1, top_citations)]
first_citations(filtered, top_citations) ==
    SubSeq(filtered, 1, Min(Len(filtered), Max(1, top_citations)))

answer_question(patient, message, project, top_citations, retrieval, generation) ==
    IF retrieval.err THEN Raised(retrieval.exc, <<>>, FALSE)
    ELSE chat_answer(first_citations(gate_filter(chat_rank_citations(retrieve(retrieval.ids),
                                                                      patient, message),
                                                  patient),
                                     top_citations),
                     project, generation)

(***************************************************************************)
(* app/memory/session_store.py.  _STORE maps a patient id to a list        *)
(* object; list objects live in heap and are named by their position in it *)
(* (0: no object), so that two holders of one list see each other's        *)
(* appends and a copy does not.  A world is [store, heap].                 *)
(***************************************************************************)
StoreKeys == {"PT-101", "DOES-NOT-EXIST"}
Roles == {"user", "assistant"}
Message(role, content) == [role |-> role, content |-> content]

\* the calls of one run of the sequential store
MaxCalls == 4
\* the requests in flight at once
NThreads == 2

World(st, hp) == [store |-> st, heap |-> hp]
EmptyWorld == World([k \in StoreKeys |-> 0], <<>>)

\* `patient_id not in _STORE`
am_key_missing(w, patient_id) == w.store[patient_id] = 0
\* `_STORE[patient_id] = []`: a new empty list replaces whatever the key held
am_create(w, patient_id) ==
    World([w.store EXCEPT ![patient_id] = Len(w.heap) + 1], Append(w.heap, <<>>))
\* `_STORE[patient_id]`: the list the key holds now
am_lookup(w, patient_id) == w.store[patient_id]
\* `.append(Message(...))` on that list
am_append(w, ref, m) == World(w.store, [w.heap EXCEPT ![ref] = Append(@, m)])

\* add_message run without interruption
add_message(w, patient_id, m) ==
    LET w1 == IF am_key_missing(w, patient_id) THEN am_create(w, patient_id) ELSE w
    IN  am_append(w1, am_lookup(w1, patient_id), m)

\* a mutant of get_history: the stored list itself is returned, not a copy
get_history_alias(w, patient_id) ==
    IF w.store[patient_id] = 0
    THEN [world |-> World(w.store, Append(w.heap, <<>>)), ref |-> Len(w.heap) + 1]
    ELSE [world |-> w, ref |-> w.store[patient_id]]

\* get_history: list(_STORE.get(patient_id, [])) is a new list with the same items
get_history(w, patient_id) ==
    LET items == IF w.store[patient_id] = 0 THEN <<>> ELSE w.heap[w.store[patient_id]]
    IN  [world |-> World(w.store, Append(w.heap, items)), ref |-> Len(w.heap) + 1]


\* clear: _STORE.pop(patient_id, None)
clear(w, patient_id) ==
    [world |-> World([w.store EXCEPT ![patient_id] = 0], w.heap), raised |-> FALSE]

\* the log of a key as a reader sees it now
LogOf(patient_id) == IF store[patient_id] = 0 THEN <<>> ELSE heap[store[patient_id]]

(***************************************************************************)
(* State machine                                                           *)
(***************************************************************************)
NoRequest ==
    [flow |-> "none", patient |-> [patient_id |-> ""], message |-> "",
     retrieval |-> [err |-> FALSE, exc |-> NoExc, ids |-> <<>>],
     generation |-> [kind |-> "none", text |-> "", exc |-> NoExc]]

Request(flow, patient, message, retrieval, generation) ==
    [flow |-> flow, patient |-> patient, message |-> message,
     retrieval |-> retrieval, generation |-> generation]

IdleThread == [pc |-> "idle", patient_id |-> "", msg |-> Message("", ""), ref |-> 0]
\* the last session-store call (op, patient_id, raised), the number of calls made (n),
\* and the last list get_history returned: its reference, the key it was asked
\* for (of) and its items when it was returned
NoReturn ==
    [op |-> "none", patient_id |-> "", raised |-> FALSE, n |-> 0,
     ref |-> 0, of |-> "", items |-> <<>>]

Init ==
    /\ env \in [project : Projects, top_citations : TopCitationsValues]
    /\ req = NoRequest
    /\ res = NoResult
    /\ store = EmptyWorld.store
    /\ heap = EmptyWorld.heap
    /\ thr = [t \in 1..NThreads |-> IdleThread]
    /\ calls = [k \in StoreKeys |-> <<>>]
    /\ snap = NoReturn
    /\ served = <<>>

StoreVars == <<store, heap, thr, calls, snap>>
FlowVars == <<env, req, res>>

\* one call of risk_assessor.assess_patient, taken up when no call is being served
Assess ==
    /\ req.flow = "none"
    /\ \E patient \in Patients, retrieval \in RetrievalOutcomes, generation \in GenerationOutcomes :
           /\ req' = Request("assess", patient, "", retrieval, generation)
           /\ res' = assess_patient(patient, env.project, retrieval, generation)
    /\ UNCHANGED <<env, StoreVars, served>>

\* one call of chat_agent.answer_question, taken up when no call is being served
AnswerQuestion ==
    /\ req.flow = "none"
    /\ \E patient \in Patients, message \in Messages,
          retrieval \in RetrievalOutcomes, generation \in GenerationOutcomes :
           /\ req' = Request("chat", patient, message, retrieval, generation)
           /\ res' = answer_question(patient, message, env.project, env.top_citations,
                                     retrieval, generation)
    /\ UNCHANGED <<env, StoreVars, served>>

\* the result has gone to the caller: nothing of the call is kept
Deliver ==
    /\ req.flow # "none"
    /\ req' = NoRequest
    /\ res' = NoResult
    /\ UNCHANGED <<env, StoreVars, served>>

Next == Assess \/ AnswerQuestion \/ Deliver

Spec == Init /\ [][Next]_vars

(***************************************************************************)
(* The session store called sequentially (specification SpecStore): each   *)
(* action is one whole call of add_message, get_history or clear.          *)
(***************************************************************************)
StoreMessages == {Message("user", "q1"), Message("assistant", "a1"), Message("user", "q2")}
IdleEnv == [project |-> "my-project", top_citations |-> TopCitationsDefault]

InitStore ==
    /\ env = IdleEnv
    /\ req = NoRequest
    /\ res = NoResult
    /\ store = EmptyWorld.store
    /\ heap = EmptyWorld.heap
    /\ thr = [t \in 1..NThreads |-> IdleThread]
    /\ calls = [k \in StoreKeys |-> <<>>]
    /\ snap = NoReturn
    /\ served = <<>>

StoreAdd ==
    /\ snap.n < MaxCalls
    /\ \E patient_id \in StoreKeys, m \in StoreMessages :
           LET w == add_message(World(store, heap), patient_id, m) IN
           /\ store' = w.store
           /\ heap' = w.heap
           /\ calls' = [calls EXCEPT ![patient_id] = Append(@, m)]
           /\ snap' = [snap EXCEPT !.op = "add", !.patient_id = patient_id,
                                   !.raised = FALSE, !.n = @ + 1]
    /\ UNCHANGED <<FlowVars, served, thr>>

StoreGet ==
    /\ snap.n < MaxCalls
    /\ \E patient_id \in StoreKeys :
           LET r == get_history(World(store, heap), patient_id) IN
           /\ store' = r.world.store
           /\ heap' = r.world.heap
           /\ snap' = [op |-> "get", patient_id |-> patient_id, raised |-> FALSE, n |-> snap.n + 1,
                       ref |-> r.ref, of |-> patient_id, items |-> r.world.heap[r.ref]]
    /\ UNCHANGED <<FlowVars, served, thr, calls>>

StoreClear ==
    /\ snap.n < MaxCalls
    /\ \E patient_id \in StoreKeys :
           LET r == clear(World(store, heap), patient_id) IN
           /\ store' = r.world.store
           /\ heap' = r.world.heap
           /\ calls' = [calls EXCEPT ![patient_id] = <<>>]
           /\ snap' = [snap EXCEPT !.op = "clear", !.patient_id = patient_id,
                                   !.raised = r.raised, !.n = @ + 1]
    /\ UNCHANGED <<FlowVars, served, thr>>

NextStore == StoreAdd \/ StoreGet \/ StoreClear

SpecStore == InitStore /\ [][NextStore]_vars

(***************************************************************************)
(* add_message called from several request threads at once (specification  *)
(* SpecThreads).  Sync endpoints run on a thread pool; the interpreter may  *)
(* switch threads between any two of add_message's steps: the membership   *)
(* test, the assignment of a new list, the lookup of the list, the append.  *)
(***************************************************************************)
\* the content thread t sends: one message per thread, all different
ContentOf(t) == "m" \o Char("123456789", t)

\* the store before the calls: no log at all, or a log for "PT-101"
InitialWorlds ==
    {EmptyWorld,
     World([k \in StoreKeys |-> IF k = "PT-101" THEN 1 ELSE 0], << <<Message("user", "q0")>> >>)}

InitThreads ==
    /\ env = IdleEnv
    /\ req = NoRequest
    /\ res = NoResult
    /\ \E w \in InitialWorlds :
           /\ store = w.store
           /\ heap = w.heap
           /\ calls = [k \in StoreKeys |-> IF w.store[k] = 0 THEN <<>> ELSE w.heap[w.store[k]]]
    /\ thr = [t \in 1..NThreads |-> IdleThread]
    /\ snap = NoReturn
    /\ served = <<>>

\* a request thread enters add_message(patient_id, role, content)
ThreadCall(t) ==
    /\ thr[t].pc = "idle"
    /\ \E patient_id \in StoreKeys, role \in Roles :
           /\ thr' = [thr EXCEPT ![t] = [pc |-> "check", patient_id |-> patient_id,
                                         msg |-> Message(role, ContentOf(t)), ref |-> 0]]
           /\ calls' = [calls EXCEPT ![patient_id] = Append(@, Message(role, ContentOf(t)))]
    /\ UNCHANGED <<FlowVars, served, store, heap, snap>>

\* `if patient_id not in _STORE:`
ThreadCheck(t) ==
    /\ thr[t].pc = "check"
    /\ thr' = [thr EXCEPT ![t].pc =
                  IF am_key_missing(World(store, heap), thr[t].patient_id) THEN "create" ELSE "lookup"]
    /\ UNCHANGED <<FlowVars, served, store, heap, calls, snap>>

\* `_STORE[patient_id] = []`
ThreadCreate(t) ==
    /\ thr[t].pc = "create"
    /\ LET w == am_create(World(store, heap), thr[t].patient_id) IN
           store' = w.store /\ heap' = w.heap
    /\ thr' = [thr EXCEPT ![t].pc = "lookup"]
    /\ UNCHANGED <<FlowVars, served, calls, snap>>

\* `_STORE[patient_id]`, left on the thread's stack while Message(...) is built
ThreadLookup(t) ==
    /\ thr[t].pc = "lookup"
    /\ thr' = [thr EXCEPT ![t].pc = "append",
                          ![t].ref = am_lookup(World(store, heap), thr[t].patient_id)]
    /\ UNCHANGED <<FlowVars, served, store, heap, calls, snap>>

\* `.append(Message(role=role, content=content))`
ThreadAppend(t) ==
    /\ thr[t].pc = "append"
    /\ LET w == am_append(World(store, heap), thr[t].ref, thr[t].msg) IN
           store' = w.store /\ heap' = w.heap
    /\ thr' = [thr EXCEPT ![t].pc = "done"]
    /\ UNCHANGED <<FlowVars, served, calls, snap>>

NextThreads ==
    \E t \in 1..NThreads :
        ThreadCall(t) \/ ThreadCheck(t) \/ ThreadCreate(t) \/ ThreadLookup(t) \/ ThreadAppend(t)

SpecThreads == InitThreads /\ [][NextThreads]_vars

(***************************************************************************)
(* The ranking on its own (specification SpecRank): _rank_citations of     *)
(* either flow applied to a list of candidates drawn from RankMeta, and,   *)
(* for chat, the gate and the slice that follow it.                        *)
(***************************************************************************)
\* the candidates in the order the row of ids names them
rank_candidates(ids) == [i \in 1..Len(ids) |-> Citation(RankMeta[ids[i] + 1])]
RankRows == SeqsUpTo(0..(Len(RankMeta) - 1), MaxIds)

\* a ranked list (citations) and what the flow takes from it (evidence)
Ranked(patient_id, ranked, taken) ==
    [kind |-> "ranked", patient_id |-> patient_id, category |-> "", rationale |-> "",
     recommended_action |-> "", answer |-> "", citations |-> ranked, evidence |-> taken,
     exc |-> NoExc, gen_called |-> FALSE]

\* assess_patient, lines 146-147: ranked, and best = ranked[0]
assess_ranked(patient, ranked) ==
    Ranked(PGet(patient, "patient_id", ""), ranked, SubSeq(ranked, 1, Min(1, Len(ranked))))

\* answer_question, lines 202-209: ranked, filtered, citations
chat_ranked(patient, ranked, top_citations) ==
    Ranked(PGet(patient, "patient_id", ""), ranked,
           first_citations(gate_filter(ranked, patient), top_citations))

InitRank ==
    /\ env \in [project : {"my-project"}, top_citations : TopCitationsValues]
    /\ req = NoRequest
    /\ res = NoResult
    /\ store = EmptyWorld.store
    /\ heap = EmptyWorld.heap
    /\ thr = [t \in 1..NThreads |-> IdleThread]
    /\ calls = [k \in StoreKeys |-> <<>>]
    /\ snap = NoReturn
    /\ served = <<>>

RankAssess ==
    /\ req.flow = "none"
    /\ \E patient \in RankPatients, ids \in RankRows :
           /\ req' = Request("rank_assess", patient, "",
                             [err |-> FALSE, exc |-> NoExc, ids |-> ids],
                             [kind |-> "none", text |-> "", exc |-> NoExc])
           /\ res' = assess_ranked(patient, _rank_citations(rank_candidates(ids), patient))
    /\ UNCHANGED <<env, StoreVars, served>>

RankChat ==
    /\ req.flow = "none"
    /\ \E patient \in RankPatients, message \in Messages, ids \in RankRows :
           /\ req' = Request("rank_chat", patient, message,
                             [err |-> FALSE, exc |-> NoExc, ids |-> ids],
                             [kind |-> "none", text |-> "", exc |-> NoExc])
           /\ res' = chat_ranked(patient,
                                 chat_rank_citations(rank_candidates(ids), patient, message),
                                 env.top_citations)
    /\ UNCHANGED <<env, StoreVars, served>>

NextRank == RankAssess \/ RankChat \/ Deliver

SpecRank == InitRank /\ [][NextRank]_vars

(***************************************************************************)
(* app/main.py (specification SpecApi): each action is one whole request   *)
(* to an endpoint, the requests being served one after the other.          *)
(***************************************************************************)
\* the requests of one run
MaxRequests == 3

\* patient_lookup.get_patient: the record of data/patients.json with that id, or None
NoPatient == [patient_id |-> ""]
get_patient(patient_id) ==
    IF \E p \in Patients : p.patient_id = patient_id
    THEN CHOOSE p \in Patients : p.patient_id = patient_id
    ELSE NoPatient

\* `if not patient:`
patient_missing(patient) == patient = NoPatient

\* what the client receives: the status, the detail of an HTTPException, the
\* agent's result (NoResult: no agent was called) and the history of the body
Http(status, detail, result, history) ==
    [kind |-> "http", status |-> status, detail |-> detail, result |-> result,
     history |-> history]

\* what a handler leaves behind: the session store, the response, the messages it
\* added, and its last session-store call (op, the number of calls, the list returned)
Handled(w, http, added, op, n, ref) ==
    [world |-> w, http |-> http, added |-> added, op |-> op, n |-> n, ref |-> ref]

\* raise HTTPException(status_code=404, detail="Patient not found")
not_found == Http(404, "Patient not found", NoResult, <<>>)

\* assess from the call of assess_patient on (lines 39-44)
assess_reply(w, r) ==
    Handled(w,
            IF r.kind = "raised" THEN Http(500, r.exc.msg, r, <<>>) ELSE Http(200, "", r, <<>>),
            <<>>, "none", 0, 0)

\* POST /assess
assess_endpoint(w, patient_id, project, retrieval, generation) ==
    IF patient_missing(get_patient(patient_id))
    THEN Handled(w, not_found, <<>>, "none", 0, 0)
    ELSE assess_reply(w, assess_patient(get_patient(patient_id), project, retrieval, generation))

\* a mutant of chat's 404: the user message is stored before the patient is looked up
chat_not_found_logged(w, patient_id, message) ==
    Handled(add_message(w, patient_id, Message("user", message)), not_found,
            <<Message("user", message)>>, "add", 1, 0)

\* chat, lines 50-51: the patient is unknown
chat_not_found(w, patient_id, message) == Handled(w, not_found, <<>>, "none", 0, 0)

\* ValueError of line 78
NoAnswerDetail == "answer_question() did not return an answer in a supported format."

\* chat, lines 80-83: raise HTTPException(status_code=500, detail=str(e))
chat_failed(w1, m, detail, r) == Handled(w1, Http(500, detail, r, <<>>), <<m>>, "add", 1, 0)

\* chat, lines 88-93: the response carries the list get_history returned
chat_respond(h, m, r) ==
    Handled(h.world, Http(200, "", r, h.world.heap[h.ref]),
            <<m, Message("assistant", r.answer)>>, "get", 3, h.ref)

\* a mutant of chat's failure path: an assistant entry is stored for a failed answer too
chat_after_user_logs_failure(w1, patient_id, m, r) ==
    IF r.kind = "raised"
    THEN chat_failed(add_message(w1, patient_id, Message("assistant", r.exc.msg)), m, r.exc.msg, r)
    ELSE IF r.answer = "" THEN chat_failed(w1, m, NoAnswerDetail, r)
    ELSE chat_respond(get_history(add_message(w1, patient_id, Message("assistant", r.answer)),
                                  patient_id), m, r)

\* chat from the result of answer_question on (lines 57-93); w1 holds the user message
chat_after_user(w1, patient_id, m, r) ==
    IF r.kind = "raised" THEN chat_failed(w1, m, r.exc.msg, r)
    ELSE IF r.answer = "" THEN chat_failed(w1, m, NoAnswerDetail, r)
    ELSE chat_respond(get_history(add_message(w1, patient_id, Message("assistant", r.answer)),
                                  patient_id), m, r)

\* a mutant of chat: every chat starts the patient's log afresh
chat_known_fresh_log(w, patient_id, message, r) ==
    chat_after_user(add_message(clear(w, patient_id).world, patient_id,
                                Message("user", message)),
                    patient_id, Message("user", message), r)

\* chat for a known patient (lines 54-93): the user message is stored first
chat_known(w, patient_id, message, r) ==
    chat_after_user(add_message(w, patient_id, Message("user", message)), patient_id,
                    Message("user", message), r)

\* POST /chat
chat_endpoint(w, patient_id, message, project, top_citations, retrieval, generation) ==
    IF patient_missing(get_patient(patient_id))
    THEN chat_not_found(w, patient_id, message)
    ELSE chat_known(w, patient_id, message,
                    answer_question(get_patient(patient_id), message, project, top_citations,
                                    retrieval, generation))

\* GET /history/{patient_id}
history_returned(h) ==
    Handled(h.world, Http(200, "", NoResult, h.world.heap[h.ref]), <<>>, "get", 1, h.ref)
history_endpoint(w, patient_id) == history_returned(get_history(w, patient_id))

\* DELETE /history/{patient_id}
delete_history_endpoint(w, patient_id) ==
    Handled(clear(w, patient_id).world, Http(200, "", NoResult, <<>>), <<>>, "clear", 1, 0)

\* the answers of the evidence store and of the generation service in a run
ApiRetrievalOutcomes ==
    {[err |-> FALSE, exc |-> NoExc, ids |-> <<0, 1>>],
     [err |-> TRUE, exc |-> Exc("FileNotFoundError", "FAISS index not found. Run ingestion first."),
      ids |-> <<>>]}
ApiGenerationOutcomes ==
    {[kind |-> "text",
      text |-> "{\"category\": \"urgent_referral\", \"rationale\": \"Excerpt says refer.\", \"recommended_action\": \"Refer.\", \"answer\": \"Refer on the pathway.\"}",
      exc |-> NoExc]}
    \cup {[kind |-> "raise", text |-> "", exc |-> e] : e \in GenerationErrors}

\* a served request: what was asked, what the collaborators answered, the response
Served(endpoint, patient_id, message, retrieval, generation, http) ==
    [endpoint |-> endpoint, patient_id |-> patient_id, message |-> message,
     retrieval |-> retrieval, generation |-> generation, http |-> http]

SameRequest(a, endpoint, patient_id, message) ==
    a.endpoint = endpoint /\ a.patient_id = patient_id /\ a.message = message

\* the evidence store does not change and the generation service answers equal
\* prompts equally: a repeated request meets the collaborators' earlier answers;
\* for an unknown patient there is no query and no prompt
AnswersAsBefore(endpoint, patient_id, message, retrieval, generation) ==
    /\ patient_missing(get_patient(patient_id)) =>
           retrieval.err /\ generation.kind = "raise"
    /\ \A i \in 1..Len(served) :
           SameRequest(served[i], endpoint, patient_id, message) =>
               served[i].retrieval = retrieval /\ served[i].generation = generation

\* the session-store bookkeeping after a handler
snap_after(out, patient_id) ==
    IF out.op = "none" THEN snap
    ELSE IF out.op = "get"
    THEN [op |-> "get", patient_id |-> patient_id, raised |-> FALSE, n |-> snap.n + out.n,
          ref |-> out.ref, of |-> patient_id, items |-> out.world.heap[out.ref]]
    ELSE [snap EXCEPT !.op = out.op, !.patient_id = patient_id, !.raised = FALSE,
                      !.n = @ + out.n]

\* the state after a request was served
Answered(out, endpoint, patient_id, message, retrieval, generation) ==
    /\ req' = Request(endpoint, get_patient(patient_id), message, retrieval, generation)
    /\ res' = out.http
    /\ store' = out.world.store
    /\ heap' = out.world.heap
    /\ calls' = [calls EXCEPT ![patient_id] =
                     IF out.op = "clear" THEN <<>> ELSE @ \o out.added]
    /\ snap' = snap_after(out, patient_id)
    /\ served' = Append(served, Served(endpoint, patient_id, message, retrieval, generation,
                                       out.http))
    /\ UNCHANGED <<env, thr>>

InitApi ==
    /\ env \in [project : Projects, top_citations : {TopCitationsDefault}]
    /\ req = NoRequest
    /\ res = NoResult
    /\ store = EmptyWorld.store
    /\ heap = EmptyWorld.heap
    /\ thr = [t \in 1..NThreads |-> IdleThread]
    /\ calls = [k \in StoreKeys |-> <<>>]
    /\ snap = NoReturn
    /\ served = <<>>

ApiAssess ==
    /\ Len(served) < MaxRequests
    /\ \E patient_id \in StoreKeys,
          retrieval \in ApiRetrievalOutcomes, generation \in ApiGenerationOutcomes :
           /\ AnswersAsBefore("assess", patient_id, "", retrieval, generation)
           /\ Answered(assess_endpoint(World(store, heap), patient_id, env.project,
                                       retrieval, generation),
                       "assess", patient_id, "", retrieval, generation)

ApiChat ==
    /\ Len(served) < MaxRequests
    /\ \E patient_id \in StoreKeys, message \in Messages,
          retrieval \in ApiRetrievalOutcomes, generation \in ApiGenerationOutcomes :
           /\ AnswersAsBefore("chat", patient_id, message, retrieval, generation)
           /\ Answered(chat_endpoint(World(store, heap), patient_id, message, env.project,
                                     env.top_citations, retrieval, generation),
                       "chat", patient_id, message, retrieval, generation)

ApiHistory ==
    /\ Len(served) < MaxRequests
    /\ \E patient_id \in StoreKeys :
           Answered(history_endpoint(World(store, heap), patient_id),
                    "history", patient_id, "", NoRequest.retrieval, NoRequest.generation)

ApiDeleteHistory ==
    /\ Len(served) < MaxRequests
    /\ \E patient_id \in StoreKeys :
           Answered(delete_history_endpoint(World(store, heap), patient_id),
                    "delete_history", patient_id, "", NoRequest.retrieval, NoRequest.generation)

NextApi == ApiAssess \/ ApiChat \/ ApiHistory \/ ApiDeleteHistory

SpecApi == InitApi /\ [][NextApi]_vars

(***************************************************************************)
(* A request and its external calls (specification SpecLive).  The thread  *)
(* of the request blocks in NG12Retriever.retrieve (embed_query_vertex and *)
(* index.search) and in generate_content until the call returns or raises: *)
(* no call is given a timeout and nothing else ends the wait.  env.stalls  *)
(* names the external services that never respond in this run.             *)
(***************************************************************************)
Services == {"retrieval", "generation"}

InitLive ==
    /\ env \in [project : Projects, top_citations : {TopCitationsDefault},
                stalls : SUBSET Services]
    /\ req = NoRequest
    /\ res = NoResult
    /\ store = EmptyWorld.store
    /\ heap = EmptyWorld.heap
    /\ thr = [t \in 1..NThreads |-> IdleThread]
    /\ calls = [k \in StoreKeys |-> <<>>]
    /\ snap = NoReturn
    /\ served = <<>>

\* what the flow of the request returns or raises, given the services' answers
flow_result(r, project, top_citations) ==
    IF r.flow = "assess"
    THEN assess_patient(r.patient, project, r.retrieval, r.generation)
    ELSE answer_question(r.patient, r.message, project, top_citations, r.retrieval, r.generation)

\* the requests of this specification, with the answers the services have given so far
LiveRequests ==
    {Request(flow, patient, message, retrieval, generation) :
         flow \in {"assess", "chat"}, patient \in Patients, message \in Messages \cup {""},
         retrieval \in ApiRetrievalOutcomes \cup {NoRequest.retrieval},
         generation \in ApiGenerationOutcomes \cup {NoRequest.generation}}
\* flow_result, evaluated once per request
FlowResultOf ==
    [r \in LiveRequests, project \in Projects, top_citations \in {TopCitationsDefault} |->
         flow_result(r, project, top_citations)]

\* a thread takes up a request and calls retriever.retrieve
LiveStart(t) ==
    /\ \A u \in 1..NThreads : thr[u].pc = "idle"
    /\ \E patient \in Patients, flow \in {"assess", "chat"}, message \in Messages :
           /\ flow = "assess" => message = "hello"
           /\ req' = Request(flow, patient, IF flow = "assess" THEN "" ELSE message,
                             NoRequest.retrieval, NoRequest.generation)
           /\ thr' = [thr EXCEPT ![t] = [IdleThread EXCEPT !.pc = "retrieve",
                                                          !.patient_id = patient.patient_id]]
    /\ UNCHANGED <<env, res, store, heap, calls, snap, served>>

\* the thread goes on from the answer of the retrieval call, up to its return
\* or to the call of generate_content
after_retrieval(t, r, result) ==
    /\ req' = r
    /\ IF result.gen_called
       THEN thr' = [thr EXCEPT ![t].pc = "generate"] /\ res' = res
       ELSE thr' = [thr EXCEPT ![t].pc = "done"] /\ res' = result

\* the evidence store answers: retrieve returns or raises
RetrievalResponds(t) ==
    /\ thr[t].pc = "retrieve"
    /\ "retrieval" \notin env.stalls
    /\ \E retrieval \in ApiRetrievalOutcomes :
           after_retrieval(t, [req EXCEPT !.retrieval = retrieval],
                           FlowResultOf[[req EXCEPT !.retrieval = retrieval],
                                        env.project, env.top_citations])
    /\ UNCHANGED <<env, store, heap, calls, snap, served>>

\* the generation service answers: generate_content returns or raises
GenerationResponds(t) ==
    /\ thr[t].pc = "generate"
    /\ "generation" \notin env.stalls
    /\ \E generation \in ApiGenerationOutcomes :
           /\ req' = [req EXCEPT !.generation = generation]
           /\ res' = FlowResultOf[[req EXCEPT !.generation = generation],
                                  env.project, env.top_citations]
    /\ thr' = [thr EXCEPT ![t].pc = "done"]
    /\ UNCHANGED <<env, store, heap, calls, snap, served>>

\* the result has gone to the caller
LiveReturn(t) ==
    /\ thr[t].pc = "done"
    /\ req' = NoRequest
    /\ res' = NoResult
    /\ thr' = [thr EXCEPT ![t] = IdleThread]
    /\ UNCHANGED <<env, store, heap, calls, snap, served>>

NextLive ==
    \E t \in 1..NThreads :
        LiveStart(t) \/ RetrievalResponds(t) \/ GenerationResponds(t) \/ LiveReturn(t)

\* every step that can be taken is taken in the end: a thread that can go on does,
\* and a service that responds at all responds
SpecLive == InitLive /\ [][NextLive]_vars /\ WF_vars(NextLive)

(***************************************************************************)
(* Properties of the assess and chat flows (specification Spec)            *)
(***************************************************************************)
Range(q) == {q[i] : i \in 1..Len(q)}

\* an excerpt stripped, lower-cased and with its whitespace runs collapsed
ExcerptNormOf == [c \in Citations |-> CollapseSpaces(Lower(Strip(c.excerpt)))]

\* the excerpt names a gated term that the patient's record does not hold
UnsupportedOf ==
    [c \in Citations, p \in AllPatients |->
        \E k \in 1..Len(gated_terms) :
            /\ Contains(gated_terms[k], ExcerptNormOf[c])
            /\ ~Contains(gated_terms[k], patient_terms(p))]
Unsupported(c, patient) == UnsupportedOf[c, patient]

\* what the retriever handed to the flow being served
Retrieved == IF req.retrieval.err THEN <<>> ELSE retrieve(req.retrieval.ids)
\* _init_vertex or generate_content raised, or would if the flow came to it
GenerationRaises == env.project = "" \/ req.generation.kind = "raise"

AssessReturned == req.flow = "assess" /\ res.kind = "response"
ChatReturned == req.flow = "chat" /\ res.kind = "answer"

\* C1: every citation of a returned assessment is free of gated terms that the
\* patient's record lacks, on the normal path and on both fallback paths.
C1_AssessCitationGated ==
    AssessReturned => \A c \in Range(res.citations) : ~Unsupported(c, req.patient)

\* C2: in chat a retrieved excerpt naming a gated term absent from the patient's
\* record is neither among the returned citations nor in the prompt's evidence
\* block, whatever its rank.
C2_ChatGateRejects ==
    req.flow = "chat" =>
        \A c \in Range(Retrieved) :
            Unsupported(c, req.patient) =>
                c \notin Range(res.citations) /\ c \notin Range(res.evidence)

\* C2 witness: the best-ranked retrieved excerpt is unsupported, and an answer is
\* returned on other citations.
C2_Witness ==
    /\ ChatReturned
    /\ res.citations # <<>>
    /\ res.gen_called
    /\ Unsupported(chat_rank_citations(Retrieved, req.patient, req.message)[1], req.patient)

RecognizedLabels ==
    {"urgent_referral", "urgent referral", "urgent_investigation", "urgent investigation",
     "no_urgent_action", "no urgent action", "routine",
     "insufficient_evidence", "insufficient evidence", "uncertain"}

\* the model's text was read as an object (a call that got as far as reading it)
ModelObject == Extract(req.generation.text)
ModelOutputRead ==
    /\ req.flow \in {"assess", "chat"}
    /\ ~GenerationRaises
    /\ res.gen_called
ModelLabel == GetStr(ModelObject, "category")
\* the label stripped, lower-cased and with its whitespace runs collapsed
LabelNormOf ==
    [t \in {g.text : g \in GenerationOutcomes} |->
        CollapseSpaces(Lower(Strip(GetStr(Extract(t), "category"))))]

\* C3: a returned assessment has one of the four categories and a non-empty
\* recommended action on every path; a label the normalizer does not recognize
\* becomes urgent_investigation (and stays the result's category when the model
\* also gave an action, so that no excerpt rule replaces it).
C3_CategoryCanonical ==
    AssessReturned =>
        /\ res.category \in CanonicalCategories
        /\ res.recommended_action # ""
        /\ (ModelOutputRead /\ ModelObject.t = "obj"
              /\ LabelNormOf[req.generation.text] \notin RecognizedLabels) =>
               /\ _map_category(ModelLabel) = "urgent_investigation"
               /\ (GetOrEmptyStripped(ModelObject, "recommended_action") # ""
                     => res.category = "urgent_investigation")

\* C3 witness: the model answered with the label "banana" and an action.
C3_Witness ==
    /\ AssessReturned
    /\ ModelOutputRead
    /\ ModelObject.t = "obj"
    /\ ModelLabel = "banana"
    /\ res.category = "urgent_investigation"
    /\ res.recommended_action = "Wait"

\* C4: whatever text the generation call returns, the extractor yields a mapping
\* and the flow returns a result instead of raising.
C4_MalformedOutputRecovered ==
    ModelOutputRead => ModelObject.t = "obj" /\ res.kind # "raised"

BestRanked == _rank_citations(Retrieved, req.patient)[1]
BestNorm == ExcerptNormOf[BestRanked]
BestHasReferral == Contains("suspected cancer pathway", BestNorm) \/ Contains("urgent referral", BestNorm)
BestHasInvestigation == Contains("urgent investigation", BestNorm)

GenerationFailedInAssess == req.flow = "assess" /\ Retrieved # <<>> /\ GenerationRaises

\* C5 as stated: after a generation error the result cites exactly the best-ranked
\* excerpt; an urgent-investigation phrase in it gives urgent_investigation, and no
\* referral/investigation phrase gives insufficient_evidence.
C5_FallbackAsStated ==
    GenerationFailedInAssess =>
        /\ res.kind = "response"
        /\ res.citations = <<BestRanked>>
        /\ BestHasInvestigation => res.category = "urgent_investigation"
        /\ (~BestHasReferral /\ ~BestHasInvestigation) => res.category = "insufficient_evidence"

\* C5 amended: after a generation error the result cites exactly the best-ranked
\* excerpt; a referral phrase in it gives urgent_referral, an urgent-investigation
\* phrase without a referral phrase gives urgent_investigation, and neither gives
\* insufficient_evidence.
C5_FallbackAmended ==
    GenerationFailedInAssess =>
        /\ res.kind = "response"
        /\ res.citations = <<BestRanked>>
        /\ BestHasReferral => res.category = "urgent_referral"
        /\ (BestHasInvestigation /\ ~BestHasReferral) => res.category = "urgent_investigation"
        /\ (~BestHasReferral /\ ~BestHasInvestigation) => res.category = "insufficient_evidence"

\* C5 witness: generate_content raised and the best excerpt holds only the
\* urgent-investigation phrase.
C5_Witness ==
    /\ GenerationFailedInAssess
    /\ req.generation.kind = "raise"
    /\ res.gen_called
    /\ BestHasInvestigation /\ ~BestHasReferral
    /\ res.category = "urgent_investigation"
    /\ res.citations = <<BestRanked>>

\* C6: when generation succeeds and the extracted mapping has no category, the
\* assessment's category and action are those of the generation-error fallback
\* for the same best excerpt; in chat an unusable answer becomes the refusal
\* sentence.
C6_MalformedUsesSameFallback ==
    /\ (req.flow = "assess" /\ ModelOutputRead /\ ModelObject.t = "obj"
          /\ ~DictHas(ModelObject, "category")
          /\ GetOrEmptyStripped(ModelObject, "recommended_action") = "") =>
           /\ res.kind = "response"
           /\ res.category =
                (IF BestHasReferral THEN "urgent_referral"
                 ELSE IF BestHasInvestigation THEN "urgent_investigation"
                 ELSE "insufficient_evidence")
           /\ res.recommended_action =
                (IF BestHasReferral THEN "Refer using a suspected cancer pathway referral."
                 ELSE IF BestHasInvestigation THEN "Offer urgent investigation."
                 ELSE "Follow NG12 guidance as per the cited excerpt.")
    /\ (req.flow = "chat" /\ ModelOutputRead /\ ModelObject.t = "obj"
          /\ GetOrEmptyStripped(ModelObject, "answer") = "") =>
           res.kind = "answer" /\ res.answer = RefusalSentence

\* C7: when retrieval raises or yields no candidate, assess returns
\* insufficient_evidence with no citation and without a generation call; after a
\* retrieval error the rationale carries the error's type and text.
C7_RetrievalFailureTerminal ==
    (req.flow = "assess" /\ Retrieved = <<>>) =>
        /\ res.kind = "response"
        /\ res.category = "insufficient_evidence"
        /\ res.citations = <<>>
        /\ ~res.gen_called
        /\ req.retrieval.err =>
              /\ Contains(req.retrieval.exc.type, res.rationale)
              /\ Contains(req.retrieval.exc.msg, res.rationale)

\* C7 witness: the retriever raised and assess returned.
C7_Witness ==
    /\ req.flow = "assess"
    /\ req.retrieval.err
    /\ res.kind = "response"
    /\ res.recommended_action = "Retry retrieval or review NG12 guidance manually."

NoSurvivor ==
    /\ req.flow = "chat"
    /\ ~req.retrieval.err
    /\ \A c \in Range(Retrieved) : Unsupported(c, req.patient)

\* C8 as stated: with no surviving candidate chat makes no generation call and
\* returns no citation and the refusal sentence, the one it substitutes for an
\* unusable model answer; a returned answer is never empty.
C8_NoSurvivorAsStated ==
    /\ NoSurvivor =>
          /\ res.kind = "answer"
          /\ ~res.gen_called
          /\ res.citations = <<>>
          /\ res.answer = RefusalSentence
    /\ ChatReturned => res.answer # ""

\* C8 amended: with no surviving candidate chat makes no generation call and
\* returns no citation and the fixed sentence "I couldn't retrieve a relevant NG12
\* excerpt for that question.", which is not the sentence substituted for an
\* unusable model answer; a returned answer is never empty.
C8_NoSurvivorAmended ==
    /\ NoSurvivor =>
          /\ res.kind = "answer"
          /\ ~res.gen_called
          /\ res.evidence = <<>>
          /\ res.citations = <<>>
          /\ res.answer = NoExcerptSentence
          /\ res.answer # RefusalSentence
    /\ ChatReturned => res.answer # ""

\* C8 witness: candidates were retrieved and the gate removed every one of them.
C8_Witness ==
    /\ NoSurvivor
    /\ Retrieved # <<>>
    /\ res.kind = "answer"
    /\ res.citations = <<>>

\* C12: with the generation project identifier unset no assess or chat request
\* returns a normal result: the request ends with the configuration error, which
\* is neither answered by a fallback result nor reported as a retrieval failure.
C12_MissingProjectIsFatal ==
    (req.flow \in {"assess", "chat"} /\ env.project = "") =>
        /\ res.kind = "raised"
        /\ res.exc \in {AssessInitError, ChatInitError}

(***************************************************************************)
(* Properties of the ranking (specification SpecRank)                      *)
(***************************************************************************)
RankingAssess == req.flow = "rank_assess" /\ res.kind = "ranked"
RankingChat == req.flow = "rank_chat" /\ res.kind = "ranked"
Candidates == rank_candidates(req.retrieval.ids)

\* the patient's symptoms include weight loss and a change in bowel habit
SymptomNamed(patient, phrase) ==
    \E i \in 1..Len(patient.symptoms) :
        Contains(phrase, CollapseSpaces(Lower(Strip(patient.symptoms[i]))))
HasCombination(patient) ==
    /\ SymptomNamed(patient, "weight loss")
    /\ SymptomNamed(patient, "change in bowel habit")
\* candidate A: a referral-pathway phrase; candidate B: a direct access CT scan
\* and no referral-pathway phrase
IsReferralPathway(c) == Contains("suspected cancer pathway", ExcerptNormOf[c])
IsDirectAccessCT(c) == Contains("direct access ct scan", ExcerptNormOf[c]) /\ ~IsReferralPathway(c)

\* C15: for a patient with weight loss and a change in bowel habit, every
\* candidate with a referral-pathway phrase is ranked before every candidate
\* recommending a direct access CT scan, whatever else the latter contains and
\* whatever the retrieval order.
C15_ReferralOutranksCT ==
    (RankingAssess /\ HasCombination(req.patient)) =>
        \A i, j \in 1..Len(res.citations) :
            (IsDirectAccessCT(res.citations[i]) /\ IsReferralPathway(res.citations[j])) => j < i

\* the key the flow sorts by
ScoreIn(c) ==
    IF req.flow = "rank_assess" THEN AssessScoreOf[c, req.patient]
    ELSE ChatScoreOf[c, req.patient, req.message]

\* out is inp reordered by some one-to-one choice of positions, keys never
\* increase along out, and equal keys keep the order they had in inp
IsStableDescending(out, inp) ==
    /\ Len(out) = Len(inp)
    /\ \E f \in [1..Len(inp) -> 1..Len(inp)] :
          /\ \A i, j \in 1..Len(inp) : i # j => f[i] # f[j]
          /\ \A i \in 1..Len(inp) : out[i] = inp[f[i]]
          /\ \A i, j \in 1..Len(inp) :
                i < j => \/ ScoreIn(out[i]) > ScoreIn(out[j])
                         \/ ScoreIn(out[i]) = ScoreIn(out[j]) /\ f[i] < f[j]

\* the ranked entries that pass the gate, in ranked order
Survivors == SelectSeq(res.citations, LAMBDA c : ~Unsupported(c, req.patient))
ChatLimit == IF env.top_citations < 1 THEN 1 ELSE env.top_citations

\* C16: in both flows the ranked list is the candidates in stable descending
\* order of score; the chat citations are the first max(1, top_citations)
\* entries of it that pass the gate, in ranked order.
C16_RankingStable ==
    /\ (RankingAssess \/ RankingChat) => IsStableDescending(res.citations, Candidates)
    /\ RankingChat =>
          res.evidence = SubSeq(Survivors, 1, IF Len(Survivors) < ChatLimit THEN Len(Survivors)
                                              ELSE ChatLimit)

\* C16 witness: chat ranked two different candidates of equal score, kept them in
\* retrieval order, and took the first one only.
C16_Witness ==
    /\ RankingChat
    /\ Len(res.citations) = 2
    /\ res.citations[1] # res.citations[2]
    /\ ScoreIn(res.citations[1]) = ScoreIn(res.citations[2])
    /\ res.citations = Candidates
    /\ Len(Survivors) = 2
    /\ res.evidence = <<res.citations[1]>>

(***************************************************************************)
(* Properties of the endpoints (specification SpecApi)                     *)
(***************************************************************************)
KnownId(patient_id) == \E p \in Patients : p.patient_id = patient_id
\* this step served one request to the endpoint
JustServed(endpoint) ==
    /\ Len(served') = Len(served) + 1
    /\ served'[Len(served')].endpoint = endpoint
LogAfter(patient_id) == IF store'[patient_id] = 0 THEN <<>> ELSE heap'[store'[patient_id]]

\* C11: a request to /assess or /chat for a patient id that data/patients.json
\* does not hold is answered 404, no agent (hence no retrieval and no generation)
\* is called for it, and the session store is as it was before the request.
C11_UnknownPatientNotFound ==
    [][\A endpoint \in {"assess", "chat"} :
           (JustServed(endpoint) /\ ~KnownId(served'[Len(served')].patient_id)) =>
               /\ res'.status = 404
               /\ res'.result = NoResult
               /\ store' = store
               /\ heap' = heap]_vars

\* both endpoints have answered an unknown id, the chat one after a chat that
\* stored messages for a known patient
C11_Witness ==
    \E i, j, k \in 1..Len(served) :
        /\ served[i].endpoint = "assess" /\ served[i].http.status = 404
        /\ served[j].endpoint = "chat" /\ served[j].http.status = 200
        /\ j < k
        /\ served[k].endpoint = "chat" /\ served[k].http.status = 404
        /\ LogOf(served[k].patient_id) = <<>>
        /\ Len(LogOf(served[j].patient_id)) = 2

\* C17: a chat request for a known patient grows the patient's log by the user
\* message, followed by the assistant's answer exactly when answer_question
\* returned (status 200); a chat whose retrieval or generation raised, or
\* whose project is not configured, is answered 500 and grows the log by the
\* user message alone.
C17_ChatLogGrowth ==
    [][(JustServed("chat") /\ KnownId(served'[Len(served')].patient_id)) =>
           LET e == served'[Len(served')]
               user == Message("user", e.message)
           IN  /\ e.http.status \in {200, 500}
               /\ e.http.status = 200 <=> e.http.result.kind = "answer"
               /\ e.http.status = 200 =>
                      LogAfter(e.patient_id) =
                          LogOf(e.patient_id) \o <<user, Message("assistant", e.http.result.answer)>>
               /\ e.http.status = 500 =>
                      LogAfter(e.patient_id) = LogOf(e.patient_id) \o <<user>>
               /\ (e.retrieval.err \/ env.project = "" \/ e.generation.kind = "raise") =>
                      e.http.status = 500]_vars

\* a failed chat was followed by a successful one: the log reads user, user, assistant
C17_Witness ==
    \E i, j \in 1..Len(served) :
        /\ i < j
        /\ served[i].endpoint = "chat" /\ served[i].http.status = 500
        /\ served[j].endpoint = "chat" /\ served[j].http.status = 200
        /\ served[i].patient_id = served[j].patient_id
        /\ LET log == LogOf(served[j].patient_id)
           IN  /\ Len(log) = 3
               /\ log[1].role = "user" /\ log[2].role = "user" /\ log[3].role = "assistant"

\* the same request to /assess or /chat, served earlier (i) and later (j)
Repeated(i, j) ==
    /\ i < j
    /\ served[i].endpoint \in {"assess", "chat"}
    /\ SameRequest(served[j], served[i].endpoint, served[i].patient_id, served[i].message)
\* the history of the patient was cleared between the two
ClearedBetween(i, j) ==
    \E k \in (i + 1)..(j - 1) :
        served[k].endpoint = "delete_history" /\ served[k].patient_id = served[i].patient_id
IsPrefix(h, g) == Len(h) <= Len(g) /\ SubSeq(g, 1, Len(h)) = h

\* C14 as stated: the same request served twice gets the same response, the
\* history snapshot of a chat response included.
C14_IdempotentAsStated ==
    \A i, j \in 1..Len(served) : Repeated(i, j) => served[i].http = served[j].http

\* C14 amended: the same request served twice gets the same status, detail and
\* agent result (category, rationale, action, answer, citations); the history
\* of a successful chat ends with the request's user message and the answer,
\* and, unless the history was cleared in between, the later history is the
\* earlier one followed by at least these two entries.
C14_IdempotentAmended ==
    \A i, j \in 1..Len(served) :
        Repeated(i, j) =>
            LET a == served[i].http
                b == served[j].http
            IN  /\ a.status = b.status
                /\ a.detail = b.detail
                /\ a.result = b.result
                /\ (served[j].endpoint = "chat" /\ b.status = 200) =>
                       /\ Len(b.history) >= 2
                       /\ SubSeq(b.history, Len(b.history) - 1, Len(b.history)) =
                              <<Message("user", served[j].message),
                                Message("assistant", b.result.answer)>>
                       /\ ~ClearedBetween(i, j) =>
                              /\ IsPrefix(a.history, b.history)
                              /\ Len(b.history) >= Len(a.history) + 2

\* one chat request was answered twice with 200, and once more after the
\* history had been cleared
C14_Witness ==
    \E i, j \in 1..Len(served) :
        /\ Repeated(i, j)
        /\ served[i].endpoint = "chat"
        /\ served[i].http.status = 200
        /\ served[j].http.status = 200
        /\ served[i].http.history # served[j].http.history
        /\ ~ClearedBetween(i, j)

(***************************************************************************)
(* Properties of a request's external calls (specification SpecLive)       *)
(***************************************************************************)
\* a thread waits in an external call
RequestWaiting == \E t \in 1..NThreads : thr[t].pc \in {"retrieve", "generate"}
\* a thread has the result or the exception of its request
RequestEnded == \E t \in 1..NThreads : thr[t].pc = "done"

\* C13: a request that waits in the retrieval call or in the generation call
\* ends (returns or raises) in the end, whether or not the service responds.
C13_StalledCallTerminates == RequestWaiting ~> RequestEnded

(***************************************************************************)
(* Properties of the session store (SpecThreads, SpecStore)                *)
(***************************************************************************)
AllCallsFinished == \A t \in 1..NThreads : thr[t].pc \in {"idle", "done"}

\* C9: once every concurrent add_message call has finished, each patient's log
\* holds exactly one entry per call made for it (beside what it held before).
C9_NoLostAppend ==
    AllCallsFinished =>
        \A k \in StoreKeys :
            /\ Len(LogOf(k)) = Len(calls[k])
            /\ Range(LogOf(k)) = Range(calls[k])

\* C10: after any sequence of calls a patient's log is exactly the messages added
\* for it since its last clear, in the order added; clear empties the key it is
\* given, does not raise for a key without a log and leaves the other keys as they
\* were; get_history returns that log, changes nothing, and the list it returned
\* keeps its items whatever is appended afterwards.
C10_StoreFifo ==
    /\ \A k \in StoreKeys : LogOf(k) = calls[k]
    /\ snap.op = "get" => snap.items = calls[snap.patient_id]
    /\ snap.ref # 0 => heap[snap.ref] = snap.items
    /\ snap.op = "clear" => ~snap.raised /\ LogOf(snap.patient_id) = <<>>

\* C10 witness: get_history returned a non-empty list, the same patient's log has
\* grown since, and the last call cleared the other key without raising.
C10_Witness ==
    /\ snap.ref # 0
    /\ snap.items # <<>>
    /\ Len(LogOf(snap.of)) > Len(snap.items)
    /\ snap.op = "clear"
    /\ snap.patient_id # snap.of
    /\ ~snap.raised

====
